---- MODULE Spec2Model ----
(***************************************************************************)
(* A model of pyzx/graph/jsonparser.py: the phase codec                    *)
(* (_quanto_value_to_phase, _phase_to_quanto_value), the decoder           *)
(* json_to_graph and the encoder graph_to_json.                            *)
(*                                                                         *)
(* Representation.                                                         *)
(*  - A Python str that the code inspects character by character (a phase *)
(*    text) is a sequence of one-character strings.  Names (dict keys) are *)
(*    only compared and concatenated and are TLA+ strings.                 *)
(*  - A Fraction is the pair <<numerator, denominator>> in lowest terms    *)
(*    with a positive denominator.                                         *)
(*  - A Python dict is a sequence of records [k, v] in insertion order     *)
(*    with distinct keys; assigning to an existing key replaces the value  *)
(*    in place, as in Python.                                              *)
(*  - An optional field is a sequence of length 0 (absent) or 1 (present). *)
(*  - A JSON scalar value is a pair <<tag, text>> of strings.              *)
(*  - Coordinates are counted in halves (the integer k stands for k/2), so *)
(*    that the midpoint of two vertices is representable; round(x, 3) is   *)
(*    the identity on such values.                                         *)
(*  - The JSON text is modelled by the document object that json.loads     *)
(*    and json.dumps read and write.                                       *)
(***************************************************************************)
EXTENDS Integers, Sequences, FiniteSets, TLC

(***************************************************************************)
(* Generic helpers: options and insertion-ordered dicts.                   *)
(***************************************************************************)
None == <<>>

Some(x) == <<x>>

IsSome(o) == Len(o) = 1

Val(o) == o[1]

Range(s) == {s[i] : i \in 1..Len(s)}

DictKeys(d) == {d[i].k : i \in 1..Len(d)}

DictHas(d, key) == \E i \in 1..Len(d) : d[i].k = key

DictGet(d, key) == d[CHOOSE i \in 1..Len(d) : d[i].k = key].v

DictPut(d, key, val) ==
    IF DictHas(d, key)
    THEN [i \in 1..Len(d) |-> IF d[i].k = key THEN [k |-> key, v |-> val] ELSE d[i]]
    ELSE Append(d, [k |-> key, v |-> val])

RECURSIVE SeqRemoveFirst(_, _)
SeqRemoveFirst(s, x) ==
    IF s = <<>> THEN <<>>
    ELSE IF Head(s) = x THEN Tail(s)
    ELSE <<Head(s)>> \o SeqRemoveFirst(Tail(s), x)

SeqContains(s, x) == \E i \in 1..Len(s) : s[i] = x

(***************************************************************************)
(* Python str and Fraction, as far as the phase codec uses them.           *)
(***************************************************************************)
Digits == <<"0", "1", "2", "3", "4", "5", "6", "7", "8", "9">>

IsDigit(c) == \E i \in 1..10 : Digits[i] = c

DigitVal(c) == (CHOOSE i \in 1..10 : Digits[i] = c) - 1

RECURSIVE NatToStr(_)
NatToStr(n) ==
    IF n < 10 THEN <<Digits[n + 1]>>
    ELSE NatToStr(n \div 10) \o <<Digits[(n % 10) + 1]>>

\* str(n) for an int n
IntToStr(n) == IF n < 0 THEN <<"-">> \o NatToStr(-n) ELSE NatToStr(n)

RECURSIVE DigitsToNat(_, _)
DigitsToNat(s, acc) ==
    IF s = <<>> THEN acc
    ELSE DigitsToNat(Tail(s), 10 * acc + DigitVal(Head(s)))

AllDigits(s) == s # <<>> /\ \A i \in 1..Len(s) : IsDigit(s[i])

RECURSIVE Gcd(_, _)
Gcd(a, b) == IF b = 0 THEN a ELSE Gcd(b, a % b)

Abs(n) == IF n < 0 THEN -n ELSE n

\* Fraction(n, d) for d > 0: lowest terms
Fraction(n, d) ==
    LET g == Gcd(Abs(n), d)
    IN  <<n \div g, d \div g>>

StartsWith(s, p) == Len(s) >= Len(p) /\ SubSeq(s, 1, Len(p)) = p

\* the pattern p occurs in s (Python: p in s)
Contains(s, p) == \E i \in 1..(Len(s) - Len(p) + 1) : SubSeq(s, i, i + Len(p) - 1) = p

\* s.replace(p, '')
RECURSIVE RemoveAll(_, _)
RemoveAll(s, p) ==
    IF s = <<>> THEN <<>>
    ELSE IF StartsWith(s, p) THEN RemoveAll(SubSeq(s, Len(p) + 1, Len(s)), p)
    ELSE <<Head(s)>> \o RemoveAll(Tail(s), p)

RECURSIVE LStrip(_)
LStrip(s) == IF s # <<>> /\ Head(s) = " " THEN LStrip(Tail(s)) ELSE s

RECURSIVE RStrip(_)
RStrip(s) == IF s # <<>> /\ s[Len(s)] = " " THEN RStrip(SubSeq(s, 1, Len(s) - 1)) ELSE s

\* s.strip()
Strip(s) == RStrip(LStrip(s))

PhaseOk(v) == [err |-> "", val |-> v]

PhaseErr(e) == [err |-> e, val |-> <<0, 1>>]

\* the position of the first "/" of s, 0 when it has none
SlashAt(s) ==
    IF \E i \in 1..Len(s) : s[i] = "/"
    THEN CHOOSE i \in 1..Len(s) : s[i] = "/" /\ \A j \in 1..(i - 1) : s[j] # "/"
    ELSE 0

\* the fraction of a numerator and a denominator text
FractionOfParts(nums, dens, neg) ==
    IF ~(AllDigits(nums) /\ AllDigits(dens)) THEN PhaseErr("ValueError")
    ELSE IF DigitsToNat(dens, 0) = 0 THEN PhaseErr("ZeroDivisionError")
    ELSE PhaseOk(Fraction(IF neg THEN -DigitsToNat(nums, 0) ELSE DigitsToNat(nums, 0),
                          DigitsToNat(dens, 0)))

\* the fraction of an unsigned text whose first "/" is at cut
FractionOfCut(body, cut, neg) ==
    IF cut = 0 THEN FractionOfParts(body, <<"1">>, neg)
    ELSE FractionOfParts(SubSeq(body, 1, cut - 1), SubSeq(body, cut + 1, Len(body)), neg)

\* the fraction of a stripped text
FractionOfSigned(s) ==
    IF s # <<>> /\ Head(s) \in {"-", "+"}
    THEN FractionOfCut(Tail(s), SlashAt(Tail(s)), Head(s) = "-")
    ELSE FractionOfCut(s, SlashAt(s), FALSE)

\* Fraction(s) for a str s: [sign] digits ["/" digits] between optional blanks.
\* The texts of the model hold no ".", "e" or "_", so the decimal and
\* exponent forms of the grammar do not arise.
FractionOfStr(s) == FractionOfSigned(Strip(s))

(***************************************************************************)
(* The phase codec.                                                        *)
(***************************************************************************)
\* the marker r'\pi'
PiMarker == <<"\\", "p", "i">>

\* line 32: a leading "-" replaced by "-1"
MinusOne(r) == IF StartsWith(r, <<"-">>) THEN <<"-", "1">> \o Tail(r) ELSE r

\* line 33: a leading "/" prefixed with "1"
LeadingOne(r) == IF StartsWith(r, <<"/">>) THEN <<"1">> \o r ELSE r

\* lines 31-33: the text of the coefficient of the marker
PiCoefficientText(s) == LeadingOne(MinusOne(Strip(RemoveAll(s, PiMarker))))

\* line 34
FractionOrOne(r) == IF r = <<>> THEN PhaseOk(<<1, 1>>) ELSE FractionOfStr(r)

\* lines 27-37; err is the exception raised, "" when a phase is returned
quanto_value_to_phase(s) ==
    IF s = <<>> THEN PhaseOk(<<0, 1>>)
    ELSE IF Contains(s, PiMarker) THEN FractionOrOne(PiCoefficientText(s))
    ELSE FractionOfStr(s)

\* lines 42-44: the coefficient glyph of a numerator
NumeratorText(n) ==
    IF n = -1 THEN <<"-">> ELSE IF n = 1 THEN <<>> ELSE IntToStr(n)

\* line 45: the suffix of a denominator
DenominatorText(d) == IF d # 1 THEN <<"/">> \o NatToStr(d) ELSE <<>>

\* lines 39-46
phase_to_quanto_value(p) ==
    IF p[1] = 0 THEN <<>>
    ELSE NumeratorText(p[1]) \o PiMarker \o DenominatorText(p[2])

(***************************************************************************)
(* Diagrams and documents.                                                 *)
(*   vertex   [ty, qubit, row, phase, ground, vdata]                       *)
(*   graph    [V, E, inputs, outputs, scalar]; a vertex is its index in V, *)
(*            an edge is [s, t, ty]                                        *)
(*   document [wire_vertices, node_vertices, undir_edges, scalar]          *)
(*   wire     [coord, annotation]   node [coord, annotation, data]         *)
(*   data     [type, is_edge, value, ground], each optional                *)
(*   edge     [src, tgt, type]                                             *)
(* The annotation dict holds every annotation key but "coord", which is    *)
(* the field coord.                                                        *)
(***************************************************************************)
JStr(s) == <<"str", s>>

JTrue == <<"bool", "true">>

JFalse == <<"bool", "false">>

JBool(b) == IF b THEN JTrue ELSE JFalse

JZero == <<"num", "0">>

\* Python truth value of a JSON scalar
Truthy(j) == j \notin {JFalse, JZero, JStr(""), <<"null", "null">>}

EmptyData == [type |-> None, is_edge |-> None, value |-> None, ground |-> None]

EmptyDoc == [wire_vertices |-> <<>>, node_vertices |-> <<>>, undir_edges |-> <<>>, scalar |-> None]

\* Scalar.to_json and Scalar.from_json: the scalar collaborator's codec
ScalarToJson(s) == [power2 |-> s]

ScalarFromJson(j) == j.power2

\* Scalar(): the scalar of a fresh Graph
DefaultScalar == 0

\* g.vdata(v, key): the stored value, 0 when there is none
VData(vx, key) == IF DictHas(vx.vdata, key) THEN DictGet(vx.vdata, key) ELSE JZero

(***************************************************************************)
(* graph_to_json                                                           *)
(***************************************************************************)
\* variation of line 164: a pool as long as the vertices alone, none for the edges
FreeNamesV_VerticesOnly(g) == [i \in 1..Len(g.V) |-> "v" \o ToString(i - 1)]

\* line 164
FreeNamesV(g) == [i \in 1..(Len(g.V) + Len(g.E)) |-> "v" \o ToString(i - 1)]

\* line 165
FreeNamesB(g) == [i \in 1..Len(g.V) |-> "b" \o ToString(i - 1)]

\* lines 171-180: the name of a vertex with stored name `stored`, and what
\* is left of the pool of its type (freenamesb for a boundary, else freenamesv)
TakeName(stored, pool) ==
    IF ~Truthy(stored)
    THEN IF pool = <<>>
         THEN [err |-> "IndexError", name |-> "", pool |-> pool]
         ELSE [err |-> "", name |-> Head(pool), pool |-> Tail(pool)]
    ELSE [err |-> "", name |-> stored[2], pool |-> SeqRemoveFirst(pool, stored[2])]

\* lines 186-189 and 209-212: the vertex data copied into an annotation,
\* keys the annotation already holds skipped
RECURSIVE CopyVData(_, _)
CopyVData(vdata, ann) ==
    IF vdata = <<>> THEN ann
    ELSE CopyVData(Tail(vdata),
             IF Head(vdata).k = "coord" \/ DictHas(ann, Head(vdata).k)
             THEN ann
             ELSE DictPut(ann, Head(vdata).k, Head(vdata).v))

\* line 170
VertexCoord(vx) == <<vx.row, -vx.qubit>>

\* lines 184-189
WireEntry(g, v) ==
    [coord |-> VertexCoord(g.V[v]),
     annotation |-> CopyVData(g.V[v].vdata,
         << [k |-> "boundary", v |-> JTrue],
            [k |-> "input", v |-> JBool(SeqContains(g.inputs, v))],
            [k |-> "output", v |-> JBool(SeqContains(g.outputs, v))] >>)]

\* variation of lines 192-202: the type of a Z vertex is left out
TypeData_ZUntyped(t) ==
    CASE t = "Z" -> EmptyData
      [] t = "X" -> [EmptyData EXCEPT !.type = Some("X")]
      [] t = "H_BOX" -> [EmptyData EXCEPT !.type = Some("hadamard"), !.is_edge = Some("false")]
      [] t = "W_INPUT" -> [EmptyData EXCEPT !.type = Some("W_input")]
      [] t = "W_OUTPUT" -> [EmptyData EXCEPT !.type = Some("W_output")]

\* lines 192-202: data.type and data.is_edge of a vertex type
TypeData(t) ==
    CASE t = "Z" -> [EmptyData EXCEPT !.type = Some("Z")]
      [] t = "X" -> [EmptyData EXCEPT !.type = Some("X")]
      [] t = "H_BOX" -> [EmptyData EXCEPT !.type = Some("hadamard"), !.is_edge = Some("false")]
      [] t = "W_INPUT" -> [EmptyData EXCEPT !.type = Some("W_input")]
      [] t = "W_OUTPUT" -> [EmptyData EXCEPT !.type = Some("W_output")]

KnownNodeType(t) == t \in {"Z", "X", "H_BOX", "W_INPUT", "W_OUTPUT"}

\* line 208: a data section, absent when empty
OmitEmpty(d) == IF d = EmptyData THEN None ELSE Some(d)

\* line 205: data.value, absent for the empty text
PhaseValue(text) == IF text # <<>> THEN Some(text) ELSE None

\* lines 191-208: the data section of a non-boundary vertex
NodeData(vx) ==
    OmitEmpty([TypeData(vx.ty) EXCEPT
                 !.value = PhaseValue(phase_to_quanto_value(vx.phase)),
                 !.ground = IF vx.ground THEN Some(JTrue) ELSE None])

\* lines 191-212
NodeEntry(vx) ==
    [coord |-> VertexCoord(vx),
     annotation |-> CopyVData(vx.vdata, <<>>),
     data |-> NodeData(vx)]

\* lines 182-212: the entry of vertex v under the name nm.name
PutVertex(g, v, st, nm) ==
    IF nm.err # "" THEN [st EXCEPT !.err = nm.err]
    ELSE IF g.V[v].ty = "BOUNDARY"
    THEN [st EXCEPT !.freenamesb = nm.pool,
                    !.names = Append(@, nm.name),
                    !.wire_vs = DictPut(@, nm.name, WireEntry(g, v))]
    ELSE IF ~KnownNodeType(g.V[v].ty) THEN [st EXCEPT !.err = "Exception"]
    ELSE [st EXCEPT !.freenamesv = nm.pool,
                    !.names = Append(@, nm.name),
                    !.node_vs = DictPut(@, nm.name, NodeEntry(g.V[v]))]

\* lines 169-212: one round of the loop over the vertices
EncodeVertex(g, v, st) ==
    PutVertex(g, v, st,
        TakeName(VData(g.V[v], "name"),
                 IF g.V[v].ty = "BOUNDARY" THEN st.freenamesb ELSE st.freenamesv))

\* lines 168-212: the loop over the vertices, from vertex v on
RECURSIVE EncodeVertices(_, _, _)
EncodeVertices(g, v, st) ==
    IF v > Len(g.V) \/ st.err # "" THEN st
    ELSE EncodeVertices(g, v + 1, EncodeVertex(g, v, st))

EdgeName(i) == "e" \o ToString(i)

\* lines 222-226: the auxiliary node of a Hadamard edge
HadamardNode(src, tgt) ==
    [coord |-> <<(src.row + tgt.row) \div 2, ((-src.qubit) + (-tgt.qubit)) \div 2>>,
     annotation |-> <<>>,
     data |-> Some([EmptyData EXCEPT !.type = Some("hadamard"), !.is_edge = Some("true")])]

\* lines 221-230: a Hadamard edge, its auxiliary node named hadname
PutHadamard(g, e, st, hadname) ==
    [st EXCEPT
       !.freenamesv = Tail(@),
       !.node_vs = DictPut(@, hadname, HadamardNode(g.V[e.s], g.V[e.t])),
       !.edges = DictPut(
           DictPut(@, EdgeName(st.i),
              [src |-> st.names[e.s], tgt |-> hadname, type |-> None]),
           EdgeName(st.i + 1),
           [src |-> st.names[e.t], tgt |-> hadname, type |-> None]),
       !.i = @ + 2]

\* lines 216-235: one round of the loop over the edges
EncodeEdge(g, e, st) ==
    CASE e.ty = "SIMPLE" ->
            [st EXCEPT !.edges = DictPut(@, EdgeName(st.i),
                            [src |-> st.names[e.s], tgt |-> st.names[e.t], type |-> None]),
                       !.i = @ + 1]
      [] e.ty = "HADAMARD" ->
            IF st.freenamesv = <<>> THEN [st EXCEPT !.err = "IndexError"]
            ELSE PutHadamard(g, e, st, Head(st.freenamesv))
      [] e.ty = "W_IO" ->
            [st EXCEPT !.edges = DictPut(@, EdgeName(st.i),
                            [src |-> st.names[e.s], tgt |-> st.names[e.t],
                             type |-> Some("w_io")]),
                       !.i = @ + 1]
      [] OTHER -> [st EXCEPT !.err = "TypeError"]

\* lines 214-235: the loop over the edges, from edge n on
RECURSIVE EncodeEdges(_, _, _)
EncodeEdges(g, n, st) ==
    IF n > Len(g.E) \/ st.err # "" THEN st
    ELSE EncodeEdges(g, n + 1, EncodeEdge(g, g.E[n], st))

\* lines 160-165: the working state of one call
EncoderStart(g) ==
    [node_vs |-> <<>>, wire_vs |-> <<>>, edges |-> <<>>, names |-> <<>>,
     freenamesv |-> FreeNamesV(g), freenamesb |-> FreeNamesB(g), i |-> 0, err |-> ""]

\* lines 237-245: the document of the final working state
EncoderResult(g, include_scalar, st) ==
    IF st.err # "" THEN [err |-> st.err, doc |-> EmptyDoc]
    ELSE [err |-> "",
          doc |-> [wire_vertices |-> st.wire_vs,
                   node_vertices |-> st.node_vs,
                   undir_edges |-> st.edges,
                   scalar |-> IF include_scalar THEN Some(ScalarToJson(g.scalar))
                              ELSE None]]

\* lines 156-245; err is the exception raised, "" when the document is returned
graph_to_json(g, include_scalar) ==
    EncoderResult(g, include_scalar,
        EncodeEdges(g, 1, EncodeVertices(g, 1, EncoderStart(g))))

(***************************************************************************)
(* json_to_graph                                                           *)
(***************************************************************************)
ErrUnsupportedType == "TypeError: unsupported type"

ErrIrregularHadamard == "TypeError: Can't parse graphs with irregular Hadamard nodes"

\* Graph(backend): the empty diagram
EmptyGraph == [V |-> <<>>, E |-> <<>>, inputs |-> <<>>, outputs |-> <<>>, scalar |-> DefaultScalar]

\* g.add_vertex(ty, qubit, row): phase 0, not ground, no vertex data
NewVertex(ty, qubit, row) ==
    [ty |-> ty, qubit |-> qubit, row |-> row, phase |-> <<0, 1>>, ground |-> FALSE,
     vdata |-> <<>>]

\* g.edge(a, b): the key of the unordered pair
EdgeKey(a, b) == IF a <= b THEN <<a, b>> ELSE <<b, a>>

\* lines 58-59
IsHadamardStub(attr) ==
    /\ IsSome(attr.data)
    /\ Val(attr.data).type = Some("hadamard")
    /\ Val(attr.data).is_edge = Some("true")

\* variation of lines 71-76: a type that is not known is read as Z
TypeOfData_DefaultZ(d) ==
    IF d.type = Some("X") THEN "X"
    ELSE IF d.type = Some("hadamard") THEN "H_BOX"
    ELSE IF d.type = Some("W_input") THEN "W_INPUT"
    ELSE IF d.type = Some("W_output") THEN "W_OUTPUT"
    ELSE "Z"

\* lines 71-76: the vertex type of a data section, "" when unsupported
TypeOfData(d) ==
    IF d.type = None \/ d.type = Some("Z") THEN "Z"
    ELSE IF d.type = Some("X") THEN "X"
    ELSE IF d.type = Some("hadamard") THEN "H_BOX"
    ELSE IF d.type = Some("W_input") THEN "W_INPUT"
    ELSE IF d.type = Some("W_output") THEN "W_OUTPUT"
    ELSE ""

\* lines 86-89 and 110-113: the annotation keys copied into the vertex data,
\* the keys of `skip` left out ("coord" is the field coord)
RECURSIVE CopyAnnotation(_, _, _)
CopyAnnotation(ann, skip, vdata) ==
    IF ann = <<>> THEN vdata
    ELSE CopyAnnotation(Tail(ann), skip,
             IF Head(ann).k \in skip THEN vdata
             ELSE DictPut(vdata, Head(ann).k, Head(ann).v))

\* lines 66-68: the vertex at the coordinates of an entry, named after it
NamedVertex(ty, name, coord) ==
    [NewVertex(ty, -coord[2], coord[1]) EXCEPT !.vdata = <<[k |-> "name", v |-> JStr(name)]>>]

\* lines 77-80: the phase of a data section
PhaseOfData(d) ==
    IF IsSome(d.value) THEN quanto_value_to_phase(Val(d.value)) ELSE PhaseOk(<<0, 1>>)

\* lines 69-89: the vertex v0 with the type, phase and ground flag of the
\* data section d and the annotation ann
TypedVertex(v0, d, ph, ann) ==
    IF TypeOfData(d) = "" THEN [err |-> ErrUnsupportedType, vx |-> v0]
    ELSE IF ph.err # "" THEN [err |-> ph.err, vx |-> v0]
    ELSE [err |-> "",
          vx |-> [v0 EXCEPT !.ty = TypeOfData(d), !.phase = ph.val,
                            !.ground = IsSome(d.ground) /\ Truthy(Val(d.ground)),
                            !.vdata = CopyAnnotation(ann, {"coord"}, @)]]

\* lines 83-85: an entry without a data section is read as an empty one
DataOf(attr) == IF IsSome(attr.data) THEN Val(attr.data) ELSE EmptyData

\* lines 62-89: the vertex of a node_vertices entry that is no stub
NodeVertex(name, attr) ==
    TypedVertex(NamedVertex("BOUNDARY", name, attr.coord), DataOf(attr),
                PhaseOfData(DataOf(attr)), attr.annotation)

\* lines 66-68: the vertex r.vx added under `name`, or the exception r.err
AddNode(st, name, r) ==
    IF r.err # "" THEN [st EXCEPT !.err = r.err]
    ELSE [st EXCEPT !.V = Append(@, r.vx), !.names = DictPut(@, name, Len(st.V) + 1)]

\* lines 57-89: one round of the loop over node_vertices
DecodeNode(st, name, attr) ==
    IF IsHadamardStub(attr) THEN [st EXCEPT !.hadamards = DictPut(@, name, <<>>)]
    ELSE AddNode(st, name, NodeVertex(name, attr))

\* lines 57-89: the loop over node_vertices, from entry n on
RECURSIVE DecodeNodes(_, _, _)
DecodeNodes(nodes, n, st) ==
    IF n > Len(nodes) \/ st.err # "" THEN st
    ELSE DecodeNodes(nodes, n + 1, DecodeNode(st, nodes[n].k, nodes[n].v))

\* variation of lines 106-107: the presence of the key alone, not its value
Flagged_KeyOnly(ann, key) == DictHas(ann, key)

\* lines 106-107: a flag of a wire annotation
Flagged(ann, key) == DictHas(ann, key) /\ Truthy(DictGet(ann, key))

\* lines 98-113: the vertex of a wire_vertices entry
WireVertex(name, attr) ==
    [NamedVertex("BOUNDARY", name, attr.coord)
       EXCEPT !.vdata = CopyAnnotation(attr.annotation,
                            {"boundary", "coord", "input", "output"}, @)]

\* lines 97-113: one round of the loop over wire_vertices
DecodeWire(st, name, attr) ==
    [st EXCEPT
       !.V = Append(@, WireVertex(name, attr)),
       !.names = DictPut(@, name, Len(st.V) + 1),
       !.inputs = IF Flagged(attr.annotation, "input") THEN Append(@, Len(st.V) + 1) ELSE @,
       !.outputs = IF Flagged(attr.annotation, "output") THEN Append(@, Len(st.V) + 1) ELSE @]

\* lines 94-116: the loop over wire_vertices, from entry n on
RECURSIVE DecodeWires(_, _, _)
DecodeWires(wires, n, st) ==
    IF n > Len(wires) \/ st.err # "" THEN st
    ELSE DecodeWires(wires, n + 1, DecodeWire(st, wires[n].k, wires[n].v))

\* lines 139-141 and 146-148: one more edge of kind `slot` (1 simple,
\* 2 Hadamard) counted for the pair `key`
CountEdge(edges, key, slot) ==
    DictPut(edges, key,
        [(IF DictHas(edges, key) THEN DictGet(edges, key) ELSE <<0, 0>>)
            EXCEPT ![slot] = @ + 1])

\* lines 126-127: the vertex v appended to the neighbours of stub n
AddNeighbour(hadamards, n, v) == DictPut(hadamards, n, Append(DictGet(hadamards, n), v))

\* lines 122-128: an edge between two stubs: a fresh Z vertex named `name`
\* between them
BetweenStubs(st, n1, n2, name) ==
    [st EXCEPT
       !.V = Append(@, [NewVertex("Z", -2, -2)
                          EXCEPT !.vdata = <<[k |-> "name", v |-> JStr(name)]>>]),
       !.names = DictPut(@, name, Len(st.V) + 1),
       !.hadamards = AddNeighbour(AddNeighbour(@, n1, Len(st.V) + 1), n2, Len(st.V) + 1)]

\* lines 135-141: an edge between the vertices of the pair `key`
PlainEdge(st, key, type) ==
    IF type = Some("w_io")
    THEN [st EXCEPT !.E = Append(@, [s |-> key[1], t |-> key[2], ty |-> "W_IO"])]
    ELSE [st EXCEPT !.edges = CountEdge(@, key, 1)]

\* lines 129-134: an edge between the stub `stub` and the vertex named `other`
StubEdge(st, stub, other) ==
    IF ~DictHas(st.names, other) THEN [st EXCEPT !.err = "KeyError"]
    ELSE [st EXCEPT !.hadamards = AddNeighbour(@, stub, DictGet(st.names, other))]

\* lines 120-141: one round of the loop over undir_edges
DecodeEdge(st, n1, n2, type) ==
    IF DictHas(st.hadamards, n1) /\ DictHas(st.hadamards, n2)
    THEN BetweenStubs(st, n1, n2, "v" \o ToString(Len(st.names)))
    ELSE IF DictHas(st.hadamards, n1) THEN StubEdge(st, n1, n2)
    ELSE IF DictHas(st.hadamards, n2) THEN StubEdge(st, n2, n1)
    ELSE IF ~(DictHas(st.names, n1) /\ DictHas(st.names, n2))
    THEN [st EXCEPT !.err = "KeyError"]
    ELSE PlainEdge(st, EdgeKey(DictGet(st.names, n1), DictGet(st.names, n2)), type)

\* lines 118-141: the loop over undir_edges, from entry n on
RECURSIVE DecodeEdges(_, _, _)
DecodeEdges(es, n, st) ==
    IF n > Len(es) \/ st.err # "" THEN st
    ELSE DecodeEdges(es, n + 1, DecodeEdge(st, es[n].v.src, es[n].v.tgt, es[n].v.type))

\* variation of lines 144-148: only a stub with more than two neighbours is
\* rejected, one with fewer is dropped
FoldHadamard_AtMostTwo(st, l) ==
    IF Len(l) > 2 THEN [st EXCEPT !.err = ErrIrregularHadamard]
    ELSE IF Len(l) < 2 THEN st
    ELSE [st EXCEPT !.edges = CountEdge(@, EdgeKey(l[1], l[2]), 2)]

\* lines 144-148: the Hadamard edge of a stub with the neighbours l
FoldHadamard(st, l) ==
    IF Len(l) # 2 THEN [st EXCEPT !.err = ErrIrregularHadamard]
    ELSE [st EXCEPT !.edges = CountEdge(@, EdgeKey(l[1], l[2]), 2)]

\* lines 143-148: the loop over the stubs, from stub n on
RECURSIVE FoldHadamards(_, _)
FoldHadamards(n, st) ==
    IF n > Len(st.hadamards) \/ st.err # "" THEN st
    ELSE FoldHadamards(n + 1, FoldHadamard(st, st.hadamards[n].v))

\* the edges [s, t, ty] that n edges of type ty between the pair `key` are
Parallel(key, ty, n) == [i \in 1..n |-> [s |-> key[1], t |-> key[2], ty |-> ty]]

\* g.add_edge_table(edges): per pair, the counted simple edges, then the
\* counted Hadamard edges.  The fusion of parallel edges is the graph API's
\* and is not modelled: a pair with more than one edge keeps them all.
RECURSIVE AddEdgeTable(_, _)
AddEdgeTable(E, edges) ==
    IF edges = <<>> THEN E
    ELSE AddEdgeTable(E \o Parallel(Head(edges).k, "SIMPLE", Head(edges).v[1])
                        \o Parallel(Head(edges).k, "HADAMARD", Head(edges).v[2]),
                      Tail(edges))

\* lines 53-56, 94-95, 118: the working state of one call
DecoderStart ==
    [V |-> <<>>, E |-> <<>>, inputs |-> <<>>, outputs |-> <<>>,
     names |-> <<>>, hadamards |-> <<>>, edges |-> <<>>, err |-> ""]

\* lines 150-154: the diagram of the final working state
DecoderResult(j, st) ==
    IF st.err # "" THEN [err |-> st.err, g |-> EmptyGraph]
    ELSE [err |-> "",
          g |-> [V |-> st.V,
                 E |-> AddEdgeTable(st.E, st.edges),
                 inputs |-> st.inputs,
                 outputs |-> st.outputs,
                 scalar |-> IF IsSome(j.scalar) THEN ScalarFromJson(Val(j.scalar))
                            ELSE DefaultScalar]]

\* lines 49-154; err is the exception raised, "" when the diagram is returned
json_to_graph(j) ==
    DecoderResult(j,
        FoldHadamards(1,
            DecodeEdges(j.undir_edges, 1,
                DecodeWires(j.wire_vertices, 1,
                    DecodeNodes(j.node_vertices, 1, DecoderStart)))))

(***************************************************************************)
(* The inputs of the model: bounded families of phases, texts, diagrams    *)
(* and documents.                                                          *)
(***************************************************************************)
\* numerators in -MaxNum..MaxNum, denominators in 1..MaxDen
MaxNum == 12

MaxDen == 4

\* a wiring diagram has at most MaxV vertices
MaxV == 2

\* a wire document has at most MaxWires wire_vertices entries
MaxWires == 2

\* a stub document has at most MaxDocSize node and edge entries together
MaxDocSize == 5

\* a typed document has at most MaxTyped node_vertices entries
MaxTyped == 2

\* at most MaxCalls calls of json_to_graph and graph_to_json in a row
MaxCalls == 2

Phases == {Fraction(n, d) : n \in (-MaxNum)..MaxNum, d \in 1..MaxDen}

Pi == PiMarker

\* phase texts as a document may hold them, the last three malformed
Texts ==
    { <<>>, Pi, <<"-">> \o Pi, Pi \o <<"/", "2">>, <<"/", "2">> \o Pi,
      <<"3">> \o Pi \o <<"/", "4">>, <<"3", "/", "4">> \o Pi, <<"3", "/", "2">>,
      <<" ">> \o Pi \o <<" ">>, <<"+", "1">>, <<"-", "3">> \o Pi \o <<"/", "4">>,
      <<"2">> \o Pi \o <<"/", "4">>, Pi \o Pi,
      <<"x">> \o Pi, Pi \o <<"/">>, Pi \o <<"/", "0">> }

VertexKinds == {"BOUNDARY", "Z", "X", "H_BOX", "W_INPUT", "W_OUTPUT"}

EdgeKinds == {"SIMPLE", "HADAMARD", "W_IO"}

\* phases of vertices: in [0, 2), as a diagram stores them
VertexPhases == {<<0, 1>>, <<1, 2>>, <<5, 4>>}

\* stored external names, "" for none
StoredNames == {"", "v0", "b0", "v1"}

NameData(name) == IF name = "" THEN <<>> ELSE <<[k |-> "name", v |-> JStr(name)]>>

\* the i-th vertex of an input diagram
InputVertex(i, ty, phase, ground, name) ==
    [ty |-> ty, qubit |-> 2 * (i - 1), row |-> 2 * i, phase |-> phase,
     ground |-> ground, vdata |-> NameData(name)]

\* a diagram of one vertex
SingleVertexDiagram(ty, phase, ground, name, io, sc) ==
    [V |-> <<InputVertex(1, ty, phase, ground, name)>>, E |-> <<>>,
     inputs |-> io[1], outputs |-> io[2], scalar |-> sc]

\* kind and stored name of the vertices of a wiring diagram
WiringProfiles ==
    { <<"Z", "">>, <<"Z", "v0">>, <<"X", "v0">>, <<"Z", "v1">>, <<"H_BOX", "b0">>,
      <<"BOUNDARY", "">>, <<"BOUNDARY", "b0">>, <<"BOUNDARY", "v0">> }

\* the pairs i < j of 1..n, in lexicographic order
RECURSIVE PairsFrom(_, _, _)
PairsFrom(i, j, n) ==
    IF i >= n THEN <<>>
    ELSE IF j > n THEN PairsFrom(i + 1, i + 2, n)
    ELSE <<<<i, j>>>> \o PairsFrom(i, j + 1, n)

\* the edges of an assignment of "" (no edge) or an edge kind to each pair
RECURSIVE EdgesOf(_, _, _)
EdgesOf(ps, kinds, p) ==
    IF p > Len(ps) THEN <<>>
    ELSE (IF kinds[p] = "" THEN <<>>
          ELSE <<[s |-> ps[p][1], t |-> ps[p][2], ty |-> kinds[p]]>>)
         \o EdgesOf(ps, kinds, p + 1)

RECURSIVE BoundariesOf(_, _)
BoundariesOf(pf, i) ==
    IF i > Len(pf) THEN <<>>
    ELSE (IF pf[i][1] = "BOUNDARY" THEN <<i>> ELSE <<>>) \o BoundariesOf(pf, i + 1)

Reverse(s) == [i \in 1..Len(s) |-> s[Len(s) + 1 - i]]

\* a diagram of the vertices pf, with the edges `kinds` assigns to the pairs;
\* its inputs are the boundary vertices, in descending order when `swap`,
\* and its outputs none or (when `swap`) the boundary vertices
WiringDiagram(pf, kinds, swap) ==
    LET b == BoundariesOf(pf, 1)
    IN  [V |-> [i \in 1..Len(pf) |-> InputVertex(i, pf[i][1], <<0, 1>>, FALSE, pf[i][2])],
         E |-> EdgesOf(PairsFrom(1, 2, Len(pf)), kinds, 1),
         inputs |-> IF swap THEN Reverse(b) ELSE b,
         outputs |-> IF swap THEN b ELSE <<>>,
         scalar |-> 1]

Doc(wires, nodes, edges, scalar) ==
    [wire_vertices |-> wires, node_vertices |-> nodes, undir_edges |-> edges,
     scalar |-> scalar]

NodeKey(i) == "v" \o ToString(i)

\* types of a data section, the last unsupported
DataTypes ==
    { None, Some("Z"), Some("X"), Some("hadamard"), Some("W_input"), Some("W_output"),
      Some("bogus") }

IsEdgeValues == {None, Some("true"), Some("false")}

\* phase texts of a node: absent, of a phase in [0, 2), or malformed
NodeTexts ==
    { None, Some(<<>>), Some(Pi), Some(Pi \o <<"/", "2">>),
      Some(<<"3">> \o Pi \o <<"/", "4">>), Some(<<"3", "/", "2">>),
      Some(<<"x">> \o Pi), Some(Pi \o <<"/", "0">>) }

GroundValues == {None, Some(JTrue), Some(JFalse)}

NodeAnnotations == {<<>>, <<[k |-> "name", v |-> JStr("zz")]>>}

NodeCoords == {<<0, 0>>, <<2, -4>>}

\* a document of one node_vertices entry
SingleNodeDoc(coord, ann, data) ==
    Doc(<<>>, <<[k |-> "v0", v |-> [coord |-> coord, annotation |-> ann, data |-> data]]>>,
        <<>>, None)

WireKeys == {"b0", "b1", "v1"}

\* annotations of a wire: flagged input, output, both, neither, by values
\* that are no booleans, and with a "name" key
WireAnnotations ==
    { << [k |-> "boundary", v |-> JTrue], [k |-> "input", v |-> JTrue],
         [k |-> "output", v |-> JFalse] >>,
      << [k |-> "boundary", v |-> JTrue], [k |-> "input", v |-> JFalse],
         [k |-> "output", v |-> JTrue] >>,
      << [k |-> "input", v |-> JTrue], [k |-> "output", v |-> JTrue] >>,
      <<>>,
      << [k |-> "input", v |-> JStr("no")], [k |-> "output", v |-> JZero] >>,
      << [k |-> "name", v |-> JStr("zz")], [k |-> "output", v |-> JTrue] >> }

PlainNode(i) == [coord |-> <<2 * i, 0>>, annotation |-> <<>>, data |-> None]

\* a document of the wires keys[i] with the annotations anns[i], and of one
\* node "v1" when `node`
WireDoc(keys, anns, node) ==
    Doc([i \in 1..Len(keys) |->
            [k |-> keys[i], v |-> [coord |-> <<0, -2 * i>>, annotation |-> anns[i]]]],
        IF node THEN <<[k |-> "v1", v |-> PlainNode(1)]>> ELSE <<>>,
        <<>>, Some(ScalarToJson(1)))

StubNode(i) ==
    [coord |-> <<2 * i, 0>>, annotation |-> <<>>,
     data |-> Some([EmptyData EXCEPT !.type = Some("hadamard"), !.is_edge = Some("true")])]

\* a document of the nodes v1, v2, ..., the i-th a Hadamard stub when
\* stubs[i], and of the edges ends[i][1] -- ends[i][2]
StubDoc(stubs, ends) ==
    Doc(<<>>,
        [i \in 1..Len(stubs) |->
            [k |-> NodeKey(i), v |-> IF stubs[i] THEN StubNode(i) ELSE PlainNode(i)]],
        [i \in 1..Len(ends) |->
            [k |-> EdgeName(i - 1),
             v |-> [src |-> NodeKey(ends[i][1]), tgt |-> NodeKey(ends[i][2]), type |-> None]]],
        None)

TypedProfiles == {"Z", "stub", "bogus", "badphase"}

TypedNode(i, profile) ==
    CASE profile = "Z" ->
            [PlainNode(i) EXCEPT !.data = Some([EmptyData EXCEPT !.type = Some("Z")])]
      [] profile = "stub" -> StubNode(i)
      [] profile = "bogus" ->
            [PlainNode(i) EXCEPT !.data = Some([EmptyData EXCEPT !.type = Some("bogus")])]
      [] profile = "badphase" ->
            [PlainNode(i) EXCEPT !.data =
                Some([EmptyData EXCEPT !.type = Some("X"), !.value = Some(<<"x">> \o Pi)])]

\* a document of the nodes v1, v2, ... of the given profiles
TypedDoc(profiles) ==
    Doc(<<>>, [i \in 1..Len(profiles) |-> [k |-> NodeKey(i), v |-> TypedNode(i, profiles[i])]],
        <<>>, None)

Injective(f) == \A i, j \in DOMAIN f : f[i] = f[j] => i = j

(***************************************************************************)
(* The state machine: a caller that holds a phase, a phase text, a diagram *)
(* or a document and calls the four functions of the module on what it     *)
(* holds.                                                                  *)
(*   phase, text  what the phase codec was given and returned (optional)   *)
(*   g, js        the diagram and the document at hand (optional)          *)
(*   prevphase, prevg   the phase (diagram) held before the last decoding  *)
(*   last         the last call: its name, the exception it raised ("" if  *)
(*                none) and the include_scalar of the last graph_to_json   *)
(*   calls        the number of calls made                                 *)
(***************************************************************************)
VARIABLES phase, text, prevphase, g, js, prevg, last, calls

vars == <<phase, text, prevphase, g, js, prevg, last, calls>>

NoCall == [op |-> "", err |-> "", include_scalar |-> TRUE]

InitRest ==
    /\ prevphase = None
    /\ prevg = None
    /\ last = NoCall
    /\ calls = 0

InitPhase ==
    /\ \E p \in Phases : phase = Some(p)
    /\ text = None /\ g = None /\ js = None
    /\ InitRest

InitText ==
    /\ \E t \in Texts : text = Some(t)
    /\ phase = None /\ g = None /\ js = None
    /\ InitRest

InitSingleVertex ==
    /\ \/ \E ty \in VertexKinds \ {"BOUNDARY"}, ph \in VertexPhases, gr \in BOOLEAN,
            nm \in StoredNames, sc \in {0, 1} :
              g = Some(SingleVertexDiagram(ty, ph, gr, nm, <<<<>>, <<>>>>, sc))
       \/ \E nm \in StoredNames, io \in {<<>>, <<1>>} \X {<<>>, <<1>>}, sc \in {0, 1} :
              g = Some(SingleVertexDiagram("BOUNDARY", <<0, 1>>, FALSE, nm, io, sc))
    /\ phase = None /\ text = None /\ js = None
    /\ InitRest

InitWiring ==
    /\ \E n \in 1..MaxV :
         \E pf \in [1..n -> WiringProfiles] :
           \E kinds \in [1..((n * (n - 1)) \div 2) -> EdgeKinds \cup {""}] :
             \E swap \in BOOLEAN :
               g = Some(WiringDiagram(pf, kinds, swap))
    /\ phase = None /\ text = None /\ js = None
    /\ InitRest

InitSingleNode ==
    /\ \E coord \in NodeCoords, ann \in NodeAnnotations :
         \/ js = Some(SingleNodeDoc(coord, ann, None))
         \/ \E ty \in DataTypes, ie \in IsEdgeValues, va \in NodeTexts, gr \in GroundValues :
              js = Some(SingleNodeDoc(coord, ann,
                          Some([type |-> ty, is_edge |-> ie, value |-> va, ground |-> gr])))
    /\ phase = None /\ text = None /\ g = None
    /\ InitRest

InitWires ==
    /\ \E n \in 0..MaxWires :
         \E keys \in {f \in [1..n -> WireKeys] : Injective(f)} :
           \E anns \in [1..n -> WireAnnotations] :
             \E node \in BOOLEAN :
               js = Some(WireDoc(keys, anns, node))
    /\ phase = None /\ text = None /\ g = None
    /\ InitRest

InitStubs ==
    /\ \E n \in 1..MaxDocSize :
         \E stubs \in [1..n -> BOOLEAN] :
           \E m \in 0..(MaxDocSize - n) :
             \E ends \in [1..m -> (1..n) \X (1..n)] :
               js = Some(StubDoc(stubs, ends))
    /\ phase = None /\ text = None /\ g = None
    /\ InitRest

InitTyped ==
    /\ \E n \in 1..MaxTyped :
         \E profiles \in [1..n -> TypedProfiles] :
           js = Some(TypedDoc(profiles))
    /\ phase = None /\ text = None /\ g = None
    /\ InitRest

Init ==
    \/ InitPhase
    \/ InitText
    \/ InitSingleVertex
    \/ InitWiring
    \/ InitSingleNode
    \/ InitWires
    \/ InitStubs
    \/ InitTyped

\* no self-loop and no two edges between the same pair: a diagram as the
\* graph API holds it after the fusion of parallel edges
Canonical(d) ==
    /\ \A i \in 1..Len(d.E) : d.E[i].s # d.E[i].t
    /\ \A i, j \in 1..Len(d.E) :
         EdgeKey(d.E[i].s, d.E[i].t) = EdgeKey(d.E[j].s, d.E[j].t) => i = j

PhaseToQuantoValue ==
    /\ calls < MaxCalls
    /\ phase # None
    /\ last.op # "_phase_to_quanto_value"
    /\ text' = Some(phase_to_quanto_value(Val(phase)))
    /\ last' = [NoCall EXCEPT !.op = "_phase_to_quanto_value"]
    /\ calls' = calls + 1
    /\ UNCHANGED <<phase, prevphase, g, js, prevg>>

QuantoValueToPhase ==
    /\ calls < MaxCalls
    /\ text # None
    /\ last.op # "_quanto_value_to_phase"
    /\ \E r \in {quanto_value_to_phase(Val(text))} :
         /\ phase' = IF r.err = "" THEN Some(r.val) ELSE None
         /\ last' = [NoCall EXCEPT !.op = "_quanto_value_to_phase", !.err = r.err]
    /\ prevphase' = phase
    /\ calls' = calls + 1
    /\ UNCHANGED <<text, g, js, prevg>>

GraphToJson ==
    /\ calls < MaxCalls
    /\ g # None
    /\ Canonical(Val(g))
    /\ last.op # "graph_to_json"
    /\ \E include_scalar \in BOOLEAN :
         \E r \in {graph_to_json(Val(g), include_scalar)} :
           /\ js' = IF r.err = "" THEN Some(r.doc) ELSE None
           /\ last' = [op |-> "graph_to_json", err |-> r.err,
                       include_scalar |-> include_scalar]
    /\ calls' = calls + 1
    /\ UNCHANGED <<phase, text, prevphase, g, prevg>>

JsonToGraph ==
    /\ calls < MaxCalls
    /\ js # None
    /\ last.op # "json_to_graph"
    /\ \E r \in {json_to_graph(Val(js))} :
         /\ g' = IF r.err = "" THEN Some(r.g) ELSE None
         /\ last' = [last EXCEPT !.op = "json_to_graph", !.err = r.err]
    /\ prevg' = g
    /\ calls' = calls + 1
    /\ UNCHANGED <<phase, text, prevphase, js>>

Next ==
    \/ PhaseToQuantoValue
    \/ QuantoValueToPhase
    \/ GraphToJson
    \/ JsonToGraph

Spec == Init /\ [][Next]_vars

(***************************************************************************)
(* What the claims speak of.                                               *)
(***************************************************************************)
\* the last call was graph_to_json: g is its argument, js its result
Encoded == last.op = "graph_to_json"

EncodedOk == Encoded /\ last.err = ""

\* the last call was json_to_graph: js is its argument, g its result
Decoded == last.op = "json_to_graph"

DecodedOk == Decoded /\ last.err = ""

\* the last two calls were graph_to_json(prevg) and json_to_graph of its result
RoundTrip == Decoded /\ prevg # None

EdgeCount(d, a, b, ty) ==
    Cardinality({i \in 1..Len(d.E) :
                   EdgeKey(d.E[i].s, d.E[i].t) = EdgeKey(a, b) /\ d.E[i].ty = ty})

\* f maps the vertices of d1 to those of d2 and keeps kinds, phases, ground
\* flags, edges by kind, and the input and output sequences
IsIsomorphism(f, d1, d2) ==
    /\ \A i \in 1..Len(d1.V) :
         /\ d2.V[f[i]].ty = d1.V[i].ty
         /\ d2.V[f[i]].phase = d1.V[i].phase
         /\ d2.V[f[i]].ground = d1.V[i].ground
    /\ \A a, b \in 1..Len(d1.V) : \A ty \in EdgeKinds :
         EdgeCount(d1, a, b, ty) = EdgeCount(d2, f[a], f[b], ty)
    /\ d2.inputs = [i \in 1..Len(d1.inputs) |-> f[d1.inputs[i]]]
    /\ d2.outputs = [i \in 1..Len(d1.outputs) |-> f[d1.outputs[i]]]

Isomorphic(d1, d2) ==
    /\ Len(d1.V) = Len(d2.V)
    /\ Len(d1.E) = Len(d2.E)
    /\ d1.scalar = d2.scalar
    /\ \E f \in Permutations(1..Len(d1.V)) : IsIsomorphism(f, d1, d2)

\* C1: json_to_graph(graph_to_json(d)) is a diagram isomorphic to d: the same
\* vertex kinds, phases and ground flags, the same edges by kind, the same
\* ordered inputs and outputs and the same scalar, whatever names d stores
\* and whatever the order of its inputs and outputs.
C1_RoundTripIdentity ==
    (RoundTrip /\ last.include_scalar) =>
        (last.err = "" /\ Isomorphic(Val(prevg), Val(g)))

\* C2: _quanto_value_to_phase(_phase_to_quanto_value(p)) = p for every
\* rational phase p, negative ones included.
C2_PhaseInverse ==
    (last.op = "_quanto_value_to_phase" /\ prevphase # None) =>
        (last.err = "" /\ phase = prevphase)

\* the names graph_to_json gives the vertices of d, by vertex
NamesOf(d) == EncodeVertices(d, 1, EncoderStart(d)).names

HadamardEdges(d) == {i \in 1..Len(d.E) : d.E[i].ty = "HADAMARD"}

StubEntries(doc) ==
    {i \in 1..Len(doc.node_vertices) : IsHadamardStub(doc.node_vertices[i].v)}

\* C4: graph_to_json gives every vertex and every auxiliary Hadamard node a
\* distinct external name: wire_vertices and node_vertices hold as many
\* entries as the diagram has vertices and Hadamard edges, and no name is in
\* both sections.
C4_NoNameCollision ==
    EncodedOk =>
        /\ Len(Val(js).wire_vertices) + Len(Val(js).node_vertices)
             = Len(Val(g).V) + Cardinality(HadamardEdges(Val(g)))
        /\ DictKeys(Val(js).wire_vertices) \cap DictKeys(Val(js).node_vertices) = {}

\* exactly one Hadamard edge, between two distinct vertices
OneHadamard(d) ==
    /\ Cardinality(HadamardEdges(d)) = 1
    /\ \A i \in HadamardEdges(d) : d.E[i].s # d.E[i].t

\* the entries of undir_edges that have the node h as an endpoint
Touching(doc, h) ==
    {i \in 1..Len(doc.undir_edges) :
        doc.undir_edges[i].v.src = h \/ doc.undir_edges[i].v.tgt = h}

Joins(entry, a, b) ==
    /\ entry.type = None
    /\ \/ entry.src = a /\ entry.tgt = b
       \/ entry.src = b /\ entry.tgt = a

\* the document has one auxiliary node, joined by one untyped entry to the
\* name na and by another to the name nb, and by nothing else
UnfoldedOnce(doc, na, nb) ==
    /\ Cardinality(StubEntries(doc)) = 1
    /\ \A s \in StubEntries(doc) :
         /\ Cardinality(Touching(doc, doc.node_vertices[s].k)) = 2
         /\ \E i, j \in Touching(doc, doc.node_vertices[s].k) :
              /\ i # j
              /\ Joins(doc.undir_edges[i].v, na, doc.node_vertices[s].k)
              /\ Joins(doc.undir_edges[j].v, nb, doc.node_vertices[s].k)

\* the diagram has one Hadamard edge, between two distinct vertices that
\* store the names na and nb
FoldedOnce(d, na, nb) ==
    /\ Cardinality(HadamardEdges(d)) = 1
    /\ \A i \in HadamardEdges(d) :
         /\ d.E[i].s # d.E[i].t
         /\ {VData(d.V[d.E[i].s], "name"), VData(d.V[d.E[i].t], "name")}
              = {JStr(na), JStr(nb)}

\* C6: a diagram with exactly one Hadamard edge between distinct vertices A
\* and B encodes to exactly one auxiliary node and two untyped entries
\* joining it to A's name and to B's name, and decoding that document gives
\* exactly one Hadamard edge between the vertices decoded from A and B and
\* no vertex for the auxiliary node.
C6_HadamardFoldUnfold ==
    /\ (EncodedOk /\ OneHadamard(Val(g))) =>
          \A i \in HadamardEdges(Val(g)) :
              UnfoldedOnce(Val(js), NamesOf(Val(g))[Val(g).E[i].s],
                                    NamesOf(Val(g))[Val(g).E[i].t])
    /\ (RoundTrip /\ OneHadamard(Val(prevg))) =>
          /\ last.err = ""
          /\ Len(Val(g).V) = Len(Val(prevg).V)
          /\ \A i \in HadamardEdges(Val(prevg)) :
                FoldedOnce(Val(g), NamesOf(Val(prevg))[Val(prevg).E[i].s],
                                   NamesOf(Val(prevg))[Val(prevg).E[i].t])

IsNonStub(e) == ~IsHadamardStub(e.v)

\* the keys of the entries json_to_graph makes vertices of, in the order it
\* makes them: the node_vertices entries that are no stubs, then wire_vertices
EntryKeys(doc) ==
    [i \in 1..(Len(SelectSeq(doc.node_vertices, IsNonStub)) + Len(doc.wire_vertices)) |->
        IF i <= Len(SelectSeq(doc.node_vertices, IsNonStub))
        THEN SelectSeq(doc.node_vertices, IsNonStub)[i].k
        ELSE doc.wire_vertices[i - Len(SelectSeq(doc.node_vertices, IsNonStub))].k]

\* C9: after json_to_graph succeeds, every vertex made from a node_vertices
\* or wire_vertices entry stores as its name the key of that entry, whatever
\* the annotation of the entry holds, and distinct vertices store distinct
\* names.
C9_StoredNameIsKey ==
    DecodedOk =>
        /\ \A i \in 1..Len(EntryKeys(Val(js))) :
              /\ i <= Len(Val(g).V)
              /\ VData(Val(g).V[i], "name") = JStr(EntryKeys(Val(js))[i])
        /\ \A i, j \in 1..Len(Val(g).V) :
              VData(Val(g).V[i], "name") = VData(Val(g).V[j], "name") => i = j

AllUnnamed(d) == \A v \in 1..Len(d.V) : ~DictHas(d.V[v].vdata, "name")

\* C10: graph_to_json never finds a name pool empty when it takes a name
\* from it: it never fails for lack of a fresh name.
C10_PoolsNeverExhausted == Encoded => last.err # "IndexError"

\* every name of the non-boundary pool is taken: two unnamed vertices and a
\* Hadamard edge between them
C10_Witness ==
    /\ EncodedOk
    /\ AllUnnamed(Val(g))
    /\ Len(Val(g).V) = 2
    /\ \A v \in 1..Len(Val(g).V) : Val(g).V[v].ty # "BOUNDARY"
    /\ OneHadamard(Val(g))
    /\ DictKeys(Val(js).node_vertices) = {"v0", "v1", "v2"}

NonStubCount(doc) == Len(SelectSeq(doc.node_vertices, IsNonStub))

HasTruthy(ann, key) == \E i \in 1..Len(ann) : ann[i].k = key /\ Truthy(ann[i].v)

\* the vertices json_to_graph makes of the wire_vertices entries whose
\* annotation holds a truthy `key`, in the order of the section
RECURSIVE FlaggedWires(_, _, _)
FlaggedWires(doc, key, n) ==
    IF n = 0 THEN <<>>
    ELSE IF HasTruthy(doc.wire_vertices[n].v.annotation, key)
    THEN Append(FlaggedWires(doc, key, n - 1), NonStubCount(doc) + n)
    ELSE FlaggedWires(doc, key, n - 1)

\* C7: the inputs of json_to_graph's result are the vertices of the
\* wire_vertices entries with a truthy input flag, in the order of the
\* section, and likewise the outputs for the output flag.
C7_BoundaryOrder ==
    DecodedOk =>
        /\ Val(g).inputs = FlaggedWires(Val(js), "input", Len(Val(js).wire_vertices))
        /\ Val(g).outputs = FlaggedWires(Val(js), "output", Len(Val(js).wire_vertices))

\* two wires, the key "b1" before the key "b0", both outputs, one an input
C7_Witness ==
    /\ DecodedOk
    /\ Len(Val(js).wire_vertices) = 2
    /\ Val(js).wire_vertices[1].k = "b1"
    /\ Val(js).wire_vertices[2].k = "b0"
    /\ Val(g).outputs = <<NonStubCount(Val(js)) + 1, NonStubCount(Val(js)) + 2>>
    /\ Len(Val(g).inputs) = 1

\* the number of undir_edges entries that have the node h as an endpoint
Refs(doc, h) == Cardinality(Touching(doc, h))

\* the number of endpoints of undir_edges entries that are the node h: an
\* entry from h to h counts twice
Degree(doc, h) ==
    Cardinality({i \in 1..Len(doc.undir_edges) : doc.undir_edges[i].v.src = h})
      + Cardinality({i \in 1..Len(doc.undir_edges) : doc.undir_edges[i].v.tgt = h})

SupportedTypes == {"Z", "X", "hadamard", "W_input", "W_output"}

Unsupported(attr) ==
    /\ IsSome(attr.data)
    /\ IsSome(Val(attr.data).type)
    /\ Val(Val(attr.data).type) \notin SupportedTypes

WellFormedValue(attr) ==
    \/ attr.data = None
    \/ Val(attr.data).value = None
    \/ quanto_value_to_phase(Val(Val(attr.data).value)).err = ""

\* every node_vertices entry that is no stub has a supported type and a
\* phase text that parses
NodesReadable(doc) ==
    \A i \in 1..Len(doc.node_vertices) :
        \/ IsHadamardStub(doc.node_vertices[i].v)
        \/ ~Unsupported(doc.node_vertices[i].v) /\ WellFormedValue(doc.node_vertices[i].v)

\* every endpoint of an undir_edges entry is the key of an entry
EndpointsNamed(doc) ==
    \A i \in 1..Len(doc.undir_edges) :
        {doc.undir_edges[i].v.src, doc.undir_edges[i].v.tgt}
            \subseteq DictKeys(doc.node_vertices) \cup DictKeys(doc.wire_vertices)

Rejected(err) == last.err = err /\ g = None

\* C3 as stated: a document with a Hadamard stub that is an endpoint of a
\* number of undir_edges entries other than 2 makes json_to_graph fail with
\* the malformed-Hadamard error and return no diagram.
C3_AsStated ==
    (Decoded /\ \E s \in StubEntries(Val(js)) :
                    Refs(Val(js), Val(js).node_vertices[s].k) # 2)
        => Rejected(ErrIrregularHadamard)

\* C3: in a document that json_to_graph reads up to the check of the stubs
\* (readable nodes, named endpoints), a Hadamard stub that is an endpoint a
\* number of times other than 2, an entry from the stub to itself counting
\* twice, makes json_to_graph fail with the malformed-Hadamard error and
\* return no diagram.
C3_IrregularHadamardRejected ==
    (Decoded /\ NodesReadable(Val(js)) /\ EndpointsNamed(Val(js))
             /\ \E s \in StubEntries(Val(js)) :
                    Degree(Val(js), Val(js).node_vertices[s].k) # 2)
        => Rejected(ErrIrregularHadamard)

\* a stub in two entries, one of them from the stub to itself, is rejected
C3_Witness ==
    /\ Decoded
    /\ NodesReadable(Val(js))
    /\ \E s \in StubEntries(Val(js)) :
          /\ Refs(Val(js), Val(js).node_vertices[s].k) = 2
          /\ Degree(Val(js), Val(js).node_vertices[s].k) = 3
    /\ Rejected(ErrIrregularHadamard)

\* C8 as stated: a document with a node_vertices entry of an unsupported
\* type makes json_to_graph fail with the unsupported-type error and return
\* no diagram, whatever the other entries.
C8_AsStated ==
    (Decoded /\ \E i \in 1..Len(Val(js).node_vertices) :
                    Unsupported(Val(js).node_vertices[i].v))
        => Rejected(ErrUnsupportedType)

\* C8: a document with a node_vertices entry of an unsupported type, no
\* entry before which has a phase text that fails to parse, makes
\* json_to_graph fail with the unsupported-type error and return no diagram.
C8_UnknownTypeRejected ==
    (Decoded /\ \E i \in 1..Len(Val(js).node_vertices) :
                    /\ Unsupported(Val(js).node_vertices[i].v)
                    /\ \A j \in 1..(i - 1) :
                          \/ IsHadamardStub(Val(js).node_vertices[j].v)
                          \/ Unsupported(Val(js).node_vertices[j].v)
                          \/ WellFormedValue(Val(js).node_vertices[j].v))
        => Rejected(ErrUnsupportedType)

\* a supported entry, then an unsupported one: no diagram, not even the
\* vertex of the first entry
C8_Witness ==
    /\ Decoded
    /\ Len(Val(js).node_vertices) >= 2
    /\ ~IsHadamardStub(Val(js).node_vertices[1].v)
    /\ ~Unsupported(Val(js).node_vertices[1].v)
    /\ Unsupported(Val(js).node_vertices[2].v)
    /\ Rejected(ErrUnsupportedType)

\* one node_vertices entry at coord [0,0] without a data section, and
\* nothing else
NoDataAtOrigin(doc) ==
    /\ doc.wire_vertices = <<>>
    /\ doc.undir_edges = <<>>
    /\ Len(doc.node_vertices) = 1
    /\ doc.node_vertices[1].v.coord = <<0, 0>>
    /\ doc.node_vertices[1].v.data = None

PlainZ(vx) == vx.ty = "Z" /\ vx.phase = <<0, 1>> /\ ~vx.ground

\* such a document decodes to a single Z vertex at qubit 0, row 0, phase 0
DecodesToPlainZ ==
    (Decoded /\ NoDataAtOrigin(Val(js))) =>
        /\ last.err = ""
        /\ Len(Val(g).V) = 1
        /\ Val(g).V[1].qubit = 0
        /\ Val(g).V[1].row = 0
        /\ PlainZ(Val(g).V[1])

\* no later vertex that is no boundary is given the name of vertex v
KeepsEntry(d, v) ==
    \A w \in (v + 1)..Len(d.V) :
        d.V[w].ty # "BOUNDARY" => NamesOf(d)[w] # NamesOf(d)[v]

\* C5 as stated: a document of one node_vertices entry at coord [0,0]
\* without data decodes to a single Z vertex at qubit 0, row 0, phase 0; and
\* graph_to_json writes for every Z vertex with phase 0 and no ground flag a
\* node_vertices entry without a data section.
C5_AsStated ==
    /\ DecodesToPlainZ
    /\ EncodedOk =>
          \A v \in 1..Len(Val(g).V) :
              PlainZ(Val(g).V[v]) =>
                  /\ DictHas(Val(js).node_vertices, NamesOf(Val(g))[v])
                  /\ DictGet(Val(js).node_vertices, NamesOf(Val(g))[v]).data = None

\* C5: a document of one node_vertices entry at coord [0,0] without data
\* decodes to a single Z vertex at qubit 0, row 0, phase 0; and graph_to_json
\* writes for every Z vertex with phase 0 and no ground flag a node_vertices
\* entry whose data section is present and holds the type "Z" and nothing
\* else; the entry stays in the document under the name of the vertex unless
\* a later vertex that is no boundary is given the same name.
C5_PlainZKeepsType ==
    /\ DecodesToPlainZ
    /\ EncodedOk =>
          \A v \in 1..Len(Val(g).V) :
              (PlainZ(Val(g).V[v]) /\ KeepsEntry(Val(g), v)) =>
                  /\ DictHas(Val(js).node_vertices, NamesOf(Val(g))[v])
                  /\ DictGet(Val(js).node_vertices, NamesOf(Val(g))[v]).data
                       = Some([EmptyData EXCEPT !.type = Some("Z")])

\* the document without data has been decoded and the vertex encoded again
C5_Witness ==
    /\ EncodedOk
    /\ calls = 2
    /\ Len(Val(g).V) = 1
    /\ PlainZ(Val(g).V[1])
    /\ Val(g).V[1].qubit = 0
    /\ Val(g).V[1].row = 0
    /\ Len(Val(js).node_vertices) = 1
    /\ Val(js).node_vertices[1].v.data = Some([EmptyData EXCEPT !.type = Some("Z")])

====
